---- MODULE Spec2Model ----
(***************************************************************************)
(* A model of pptxremovewatermark.py: the scan-and-remove pass over one    *)
(* shape collection (remove_hyperlinked_pictures_from_shapes) and the      *)
(* driver that applies it to every slide master and layout and then asks   *)
(* where to save (process_presentation).                                   *)
(***************************************************************************)
EXTENDS Integers, Sequences, FiniteSets, TLC

\* ------------------------------------------------------------------ bounds

MaxShapes == 2
MaxChildren == 2
\* the shape collections of a presentation: its masters and all their layouts
MaxContainers == 5

\* ------------------------------------------------------------------ shapes

\* Python's None where an address string is expected.
NoneAddress == "None"

Addresses == {NoneAddress, "", "http://x"}

\* bool(x) of an address: None and the empty string are falsy.
Truthy(address) == address # NoneAddress /\ address # ""

\* A shape proxy. click_action and hyperlink record whether the attribute is
\* a truthy object; id is the identity of the underlying XML element.
Shape(id, shape_type, click_action, hyperlink, address, shapes) ==
    [id |-> id, shape_type |-> shape_type, click_action |-> click_action,
     hyperlink |-> hyperlink, address |-> address, shapes |-> shapes]

\* The five ways a picture's click_action chain can look.
Pictures ==
    {Shape(0, "PICTURE", FALSE, FALSE, NoneAddress, <<>>),
     Shape(0, "PICTURE", TRUE, FALSE, NoneAddress, <<>>)}
    \cup {Shape(0, "PICTURE", TRUE, TRUE, a, <<>>) : a \in Addresses}

PicLinked == Shape(0, "PICTURE", TRUE, TRUE, "http://x", <<>>)
PicEmpty == Shape(0, "PICTURE", TRUE, TRUE, "", <<>>)
PicNone == Shape(0, "PICTURE", TRUE, TRUE, NoneAddress, <<>>)

\* A shape of another kind that carries a hyperlink of its own.
TextBox == Shape(0, "TEXT_BOX", TRUE, TRUE, "http://x", <<>>)

\* element identities follow the position in the parent
Number(seq) == [k \in DOMAIN seq |-> [seq[k] EXCEPT !.id = k]]

SeqsUpTo(S, n) == UNION {[1..k -> S] : k \in 0..n}

Group(children) == Shape(0, "GROUP", FALSE, FALSE, NoneAddress, Number(children))

\* A group inside a group: it hides a hyperlinked picture and a plain one.
DeepGroup == Group(<<PicLinked, PicEmpty>>)

ChildKinds == {PicLinked, PicEmpty}

\* Groups of pictures, and two groups with a group inside.
Groups ==
    {Group(c) : c \in SeqsUpTo(ChildKinds, MaxChildren)}
    \cup {Group(<<DeepGroup>>), Group(<<DeepGroup, PicLinked>>)}

TopKinds == Pictures \cup {TextBox} \cup Groups

Collections == {Number(c) : c \in SeqsUpTo(TopKinds, MaxShapes)}

\* ------------------------------------------------------------------ state

VARIABLES
    pc,                 \* position in the program
    opened,             \* how Presentation(input_path) went: "no" (not tried), "yes", "error"
    input_path,         \* the argument of process_presentation
    prs,                \* the presentation: its slide masters
    m,                  \* index of the slide master being processed
    j,                  \* index of its layout being processed, 0: the master itself
    shapes_to_remove,   \* the worklist of the running pass (element identities)
    r,                  \* position of the removal loop in the worklist
    out,                \* lines printed since the latest call or phase began
    calls,              \* the collections the pass was called on, in order
    before,             \* the collection as it was when the pass was called
    inspected,          \* per top-level shape, the sub-shapes the scan looked at
    tries,              \* the detachments attempted by the running pass
    prev_tries,         \* the detachments attempted by the call before it
    ret,                \* what the latest call of the pass returned
    choice,             \* the answer to the save question
    output_path,        \* where to save
    save_calls          \* the paths save() was called with

vars == <<pc, opened, input_path, prs, m, j, shapes_to_remove, r, out, calls, before,
          inspected, tries, prev_tries, ret, choice, output_path, save_calls>>

promptVars == <<opened, choice, output_path, save_calls>>

\* The return value of a function that returns nothing.
ReturnsNone == {}

\* ------------------------------------------------------------------ the pass

\* The chain cut short: a hyperlink object counts, whatever its address.
HasHyperlinkObject(shape) == shape.click_action /\ shape.hyperlink

\* shape.click_action and shape.click_action.hyperlink and
\* shape.click_action.hyperlink.address
HasHyperlinkAddress(shape) ==
    shape.click_action /\ shape.hyperlink /\ Truthy(shape.address)

\* The inner loop, were it to descend into nested groups.
RECURSIVE FirstLinkedDeep(_, _)
FirstLinkedDeep(sub_shapes, k) ==
    IF k > Len(sub_shapes) THEN 0
    ELSE IF \/ sub_shapes[k].shape_type = "PICTURE" /\ HasHyperlinkAddress(sub_shapes[k])
            \/ sub_shapes[k].shape_type = "GROUP"
                  /\ FirstLinkedDeep(sub_shapes[k].shapes, 1) # 0
         THEN k
         ELSE FirstLinkedDeep(sub_shapes, k + 1)

\* The inner loop over a group's sub-shapes: the position of the first
\* picture with a hyperlink address at or after k, 0 when there is none.
RECURSIVE FirstLinked(_, _)
FirstLinked(sub_shapes, k) ==
    IF k > Len(sub_shapes) THEN 0
    ELSE IF sub_shapes[k].shape_type = "PICTURE" /\ HasHyperlinkAddress(sub_shapes[k])
         THEN k
         ELSE FirstLinked(sub_shapes, k + 1)

\* The inner loop without its break.
VisitedNoBreak(sub_shapes) == Len(sub_shapes)

\* How many sub-shapes the inner loop visits before it breaks or runs out.
Visited(sub_shapes) ==
    IF FirstLinked(sub_shapes, 1) = 0 THEN Len(sub_shapes)
    ELSE FirstLinked(sub_shapes, 1)

InSeq(x, seq) == \E k \in DOMAIN seq : seq[k] = x

\* The body of the outer loop for one shape: the worklist after it.
Mark(shape, worklist) ==
    IF shape.shape_type = "PICTURE"
    THEN IF HasHyperlinkAddress(shape) THEN Append(worklist, shape.id) ELSE worklist
    ELSE IF shape.shape_type = "GROUP"
         THEN IF FirstLinked(shape.shapes, 1) # 0 /\ ~InSeq(shape.id, worklist)
              THEN Append(worklist, shape.id)
              ELSE worklist
         ELSE worklist

\* The outer loop from position k on.
RECURSIVE ScanFrom(_, _, _)
ScanFrom(shapes_collection, k, worklist) ==
    IF k > Len(shapes_collection) THEN worklist
    ELSE ScanFrom(shapes_collection, k + 1, Mark(shapes_collection[k], worklist))

\* The outer loop, were it to start one shape late.
ScanFromSecond(shapes_collection) == ScanFrom(shapes_collection, 2, <<>>)

\* The worklist the outer loop builds.
Scan(shapes_collection) == ScanFrom(shapes_collection, 1, <<>>)

\* What the scan looks at inside each top-level shape.
Inspection(shapes_collection) ==
    [k \in DOMAIN shapes_collection |->
        IF shapes_collection[k].shape_type = "GROUP"
        THEN Visited(shapes_collection[k].shapes)
        ELSE 0]

Line(msg, n) == [msg |-> msg, n |-> n]

\* The "Found ..." lines of the scan, one per hit, in pass order.
RECURSIVE FoundLines(_, _)
FoundLines(shapes_collection, k) ==
    IF k > Len(shapes_collection) THEN <<>>
    ELSE LET shape == shapes_collection[k]
             here == IF shape.shape_type = "PICTURE" /\ HasHyperlinkAddress(shape)
                     THEN <<Line("found_picture", shape.id)>>
                     ELSE IF shape.shape_type = "GROUP" /\ FirstLinked(shape.shapes, 1) # 0
                          THEN <<Line("found_in_group", shape.id)>>
                          ELSE <<>>
         IN  here \o FoundLines(shapes_collection, k + 1)

\* The line that follows the scan, counting from zero.
VerdictLineShort(worklist) ==
    IF worklist # <<>> THEN Line("attempting", Len(worklist) - 1)
    ELSE Line("none_found", 0)

\* The line that follows the scan.
VerdictLine(worklist) ==
    IF worklist # <<>> THEN Line("attempting", Len(worklist))
    ELSE Line("none_found", 0)

\* Removal by the position the shape had when the pass began.
DetachAt(shapes_collection, id) ==
    [k \in 1..(Len(shapes_collection) - (IF id <= Len(shapes_collection) THEN 1 ELSE 0)) |->
        IF k < id THEN shapes_collection[k] ELSE shapes_collection[k + 1]]

\* element.getparent().remove(element)
Detach(shapes_collection, id) ==
    SelectSeq(shapes_collection, LAMBDA s : s.id # id)

Attached(shapes_collection, id) == \E k \in DOMAIN shapes_collection : shapes_collection[k].id = id

\* The removal loop, were an exception to leave it.
AfterTryAbort(ok, k, n) == IF ok /\ k < n THEN "remove" ELSE "return"

\* Where the removal loop goes after the attempt at position k of n.
AfterTry(ok, k, n) == IF k < n THEN "remove" ELSE "return"

\* The collection the running pass works on.
Cur == IF j = 0 THEN prs[m].shapes ELSE prs[m].slide_layouts[j].shapes

SetCur(new) ==
    IF j = 0 THEN [prs EXCEPT ![m].shapes = new]
    ELSE [prs EXCEPT ![m].slide_layouts[j].shapes = new]

\* Lines 10-39 and 47-48: the scan loop and the branch on the worklist.
ScanShapes ==
    /\ pc = "scan"
    /\ shapes_to_remove' = Scan(Cur)
    /\ inspected' = Inspection(Cur)
    /\ out' = FoundLines(Cur, 1) \o <<VerdictLine(shapes_to_remove')>>
    /\ r' = 1
    /\ pc' = IF shapes_to_remove' # <<>> THEN "remove" ELSE "return"
    /\ UNCHANGED <<input_path, prs, m, j, calls, before, tries, prev_tries, ret>>
    /\ UNCHANGED promptVars

\* Lines 40-46: one turn of the removal loop. The detachment either succeeds
\* or raises; an element that has no parent any more can only raise.
RemoveShape ==
    /\ pc = "remove"
    /\ r <= Len(shapes_to_remove)
    /\ \E ok \in BOOLEAN :
        /\ ok => Attached(Cur, shapes_to_remove[r])
        /\ prs' = IF ok THEN SetCur(Detach(Cur, shapes_to_remove[r])) ELSE prs
        /\ out' = Append(out, Line(IF ok THEN "removed" ELSE "could_not", 0))
        /\ tries' = Append(tries, [id |-> shapes_to_remove[r], ok |-> ok])
        /\ pc' = AfterTry(ok, r, Len(shapes_to_remove))
    /\ r' = r + 1
    /\ UNCHANGED <<input_path, m, j, shapes_to_remove, calls, before, inspected,
                   prev_tries, ret>>
    /\ UNCHANGED promptVars

\* A call of the pass on the collection (mm, jj).
Call(mm, jj) ==
    /\ m' = mm
    /\ j' = jj
    /\ calls' = Append(calls, <<mm, jj>>)
    /\ before' = IF jj = 0 THEN prs[mm].shapes ELSE prs[mm].slide_layouts[jj].shapes
    /\ shapes_to_remove' = <<>>
    /\ r' = 1
    /\ out' = <<>>
    /\ inspected' = <<>>
    /\ prev_tries' = tries
    /\ tries' = <<>>
    /\ pc' = "scan"

\* ------------------------------------------------------------------ the pass alone

\* A second call on the collection the first call worked on.
CallAgain ==
    /\ pc = "return"
    /\ Len(calls) < 2
    /\ Call(m, j)
    /\ UNCHANGED <<input_path, prs, ret>>
    /\ UNCHANGED promptVars

NoPath == <<>>

InitPass ==
    /\ \E c \in Collections : prs = <<[shapes |-> c, slide_layouts |-> <<>>]>>
    /\ pc = "scan"
    /\ opened = "yes"
    /\ input_path = NoPath
    /\ m = 1
    /\ j = 0
    /\ calls = << <<1, 0>> >>
    /\ before = prs[1].shapes
    /\ shapes_to_remove = <<>>
    /\ r = 1
    /\ out = <<>>
    /\ inspected = <<>>
    /\ tries = <<>>
    /\ prev_tries = <<>>
    /\ ret = ReturnsNone
    /\ choice = <<>>
    /\ output_path = NoPath
    /\ save_calls = <<>>

NextPass == ScanShapes \/ RemoveShape \/ CallAgain

SpecPass == InitPass /\ [][NextPass]_vars

\* ------------------------------------------------------------------ text and paths

\* A string is the sequence of its characters.
RECURSIVE StripLeft(_)
StripLeft(s) == IF s # <<>> /\ Head(s) = " " THEN StripLeft(Tail(s)) ELSE s

RECURSIVE StripRight(_)
StripRight(s) ==
    IF s # <<>> /\ s[Len(s)] = " " THEN StripRight(SubSeq(s, 1, Len(s) - 1)) ELSE s

\* str.strip()
Strip(s) == StripRight(StripLeft(s))

UpperChar(c) ==
    CASE c = "o" -> "O"
      [] c = "s" -> "S"
      [] c = "x" -> "X"
      [] OTHER -> c

\* str.upper()
Upper(s) == [k \in DOMAIN s |-> UpperChar(s[k])]

\* str.rfind(c), counting from 1: 0 when c does not occur
RFind(s, c) ==
    LET hits == {k \in DOMAIN s : s[k] = c}
    IN  IF hits = {} THEN 0 ELSE CHOOSE k \in hits : \A h \in hits : h <= k

\* os.path.splitext: the extension starts at the last dot of the last
\* component, unless only dots come before it there.
Splitext(path) ==
    LET sepIndex == RFind(path, "/")
        dotIndex == RFind(path, ".")
    IN  IF dotIndex > sepIndex
           /\ \E k \in (sepIndex + 1)..(dotIndex - 1) : path[k] # "."
        THEN <<SubSeq(path, 1, dotIndex - 1), SubSeq(path, dotIndex, Len(path))>>
        ELSE <<path, <<>>>>

\* str.split("/")
RECURSIVE Split(_, _, _)
Split(s, cur, acc) ==
    IF s = <<>> THEN Append(acc, cur)
    ELSE IF Head(s) = "/" THEN Split(Tail(s), <<>>, Append(acc, cur))
         ELSE Split(Tail(s), Append(cur, Head(s)), acc)

\* The loop of os.path.normpath over the components of an absolute path.
RECURSIVE Collapse(_, _)
Collapse(comps, acc) ==
    IF comps = <<>> THEN acc
    ELSE LET comp == Head(comps)
         IN  IF comp = <<>> \/ comp = <<".">> THEN Collapse(Tail(comps), acc)
             ELSE IF comp = <<".", ".">>
                  THEN Collapse(Tail(comps),
                                IF acc = <<>> THEN acc ELSE SubSeq(acc, 1, Len(acc) - 1))
                  ELSE Collapse(Tail(comps), Append(acc, comp))

RECURSIVE Join(_)
Join(comps) ==
    IF comps = <<>> THEN <<>> ELSE <<"/">> \o Head(comps) \o Join(Tail(comps))

\* The working directory of the process.
Cwd == <<"/", "w">>

\* os.path.abspath
Abspath(path) ==
    LET full == IF path # <<>> /\ Head(path) = "/" THEN path ELSE Cwd \o <<"/">> \o path
        comps == Collapse(Split(full, <<>>, <<>>), <<>>)
    IN  IF comps = <<>> THEN <<"/">> ELSE Join(comps)

\* The comparison of line 93, were it made on the strings as typed.
SameStrings(output, input) == output = input

\* os.path.abspath(output_path) == os.path.abspath(input_path)
SameAsOriginal(output, input) == Abspath(output) = Abspath(input)

\* f"{base}_modified{ext}"
DefaultNewPath(path) ==
    Splitext(path)[1] \o <<"_", "m", "o", "d", "i", "f", "i", "e", "d">> \o Splitext(path)[2]

DeckName == <<"d", ".", "p", "p", "t", "x">>

InputPaths == {DeckName, <<".", "/">> \o DeckName}

\* what the user may type at the first question
ChoiceInputs == {<<"O">>, <<" ", "o">>, <<"S">>, <<"s", " ">>, <<"x">>, <<>>}

\* what the user may type at the second question
NameInputs ==
    {<<>>, <<" ">>, DeckName, <<" ">> \o DeckName \o <<" ">>,
     Cwd \o <<"/">> \o DeckName, <<"e", "/", ".", ".", "/">> \o DeckName,
     <<"e", ".", "p", "p", "t", "x">>}

\* ------------------------------------------------------------------ the presentations

RECURSIVE Sum(_)
Sum(seq) == IF seq = <<>> THEN 0 ELSE Head(seq) + Sum(Tail(seq))

\* The number of layouts of each master, for every presentation of at most
\* MaxContainers shape collections.
Structures ==
    {lc \in SeqsUpTo(0..MaxContainers, MaxContainers) : Len(lc) + Sum(lc) <= MaxContainers}

MasterFills == {<<>>, Number(<<PicLinked, TextBox>>)}
LayoutFills == {<<>>, Number(<<Group(<<PicEmpty, PicLinked>>)>>)}

Presentations ==
    {[k \in DOMAIN lc |->
        [shapes |-> mf, slide_layouts |-> [n \in 1..lc[k] |-> [shapes |-> lf]]]] :
        lc \in Structures, mf \in MasterFills, lf \in LayoutFills}

\* ------------------------------------------------------------------ process_presentation

\* Where the function goes when Presentation() has raised, were it to carry on.
AfterOpenErrorCarryOn == "prompt"

\* Where the function goes when Presentation() has raised: line 60, return.
AfterOpenError == "returned"

\* The layout loop, one layout short.
MoreLayoutsShort(jj, n) == jj + 1 < n

\* Whether the layout loop has a layout left after the jj-th of n.
MoreLayouts(jj, n) == jj < n

passVars == <<shapes_to_remove, r, calls, before, inspected, tries, prev_tries, ret>>

\* Lines 56-57, 62-66 and 79-80: the presentation opens.
Open ==
    /\ pc = "open"
    /\ opened' = "yes"
    /\ out' = IF Len(prs) = 0 THEN <<Line("no_masters", 0)>>
              ELSE <<Line("processing_masters", Len(prs))>>
    /\ pc' = IF Len(prs) = 0 THEN "prompt" ELSE "masters"
    /\ UNCHANGED <<input_path, prs, m, j, choice, output_path, save_calls>>
    /\ UNCHANGED passVars

\* Lines 58-60: opening raises.
OpenError ==
    /\ pc = "open"
    /\ opened' = "error"
    /\ out' = <<Line("error_opening", 0)>>
    /\ pc' = AfterOpenError
    /\ UNCHANGED <<input_path, prs, m, j, choice, output_path, save_calls>>
    /\ UNCHANGED passVars

\* Lines 67-69: the next master, and the call of the pass on its shapes.
NextMaster ==
    /\ pc = "masters"
    /\ IF m < Len(prs)
       THEN Call(m + 1, 0)
       ELSE /\ pc' = "prompt"
            /\ UNCHANGED <<m, j, out>>
            /\ UNCHANGED passVars
    /\ UNCHANGED <<input_path, prs, ret>>
    /\ UNCHANGED promptVars

\* The pass returns to the loop it was called from.
Return ==
    /\ pc = "return"
    /\ pc' = "layouts"
    /\ ret' = ReturnsNone
    /\ UNCHANGED <<input_path, prs, m, j, shapes_to_remove, r, out, calls, before,
                   inspected, tries, prev_tries>>
    /\ UNCHANGED promptVars

\* Lines 72-78: the next layout of the master, and the call of the pass on it.
NextLayout ==
    /\ pc = "layouts"
    /\ IF MoreLayouts(j, Len(prs[m].slide_layouts))
       THEN Call(m, j + 1)
       ELSE /\ pc' = "masters"
            /\ UNCHANGED <<m, j, out>>
            /\ UNCHANGED passVars
    /\ UNCHANGED <<input_path, prs, ret>>
    /\ UNCHANGED promptVars

\* Lines 84-88 and 97-98: the first question.
PromptChoice ==
    /\ pc = "prompt"
    /\ \E answer \in ChoiceInputs :
        /\ choice' = Upper(Strip(answer))
        /\ output_path' = IF choice' = <<"O">> THEN input_path ELSE output_path
        /\ pc' = IF choice' = <<"O">> THEN "save"
                 ELSE IF choice' = <<"S">> THEN "name"
                 ELSE "prompt"
    /\ UNCHANGED <<opened, input_path, prs, m, j, out, save_calls>>
    /\ UNCHANGED passVars

\* Lines 89-96: the second question.
PromptName ==
    /\ pc = "name"
    /\ \E typed \in NameInputs :
        LET new_path_input == Strip(typed)
        IN  /\ output_path' = IF new_path_input # <<>> THEN new_path_input
                              ELSE DefaultNewPath(input_path)
            /\ pc' = IF SameAsOriginal(output_path', input_path) THEN "prompt" ELSE "save"
    /\ UNCHANGED <<opened, input_path, prs, m, j, out, choice, save_calls>>
    /\ UNCHANGED passVars

\* Lines 100-104: save() is called, and it works or raises.
Save ==
    /\ pc = "save"
    /\ save_calls' = Append(save_calls, output_path)
    /\ \E ok \in BOOLEAN :
        out' = <<Line(IF ok THEN "saved" ELSE "error_saving", 0)>>
    /\ pc' = "done"
    /\ UNCHANGED <<opened, input_path, prs, m, j, choice, output_path>>
    /\ UNCHANGED passVars

Init ==
    /\ prs \in Presentations
    /\ input_path \in InputPaths
    /\ pc = "open"
    /\ opened = "no"
    /\ m = 0
    /\ j = 0
    /\ calls = <<>>
    /\ before = <<>>
    /\ shapes_to_remove = <<>>
    /\ r = 1
    /\ out = <<>>
    /\ inspected = <<>>
    /\ tries = <<>>
    /\ prev_tries = <<>>
    /\ ret = ReturnsNone
    /\ choice = <<>>
    /\ output_path = NoPath
    /\ save_calls = <<>>

Next ==
    \/ Open
    \/ OpenError
    \/ NextMaster
    \/ ScanShapes
    \/ RemoveShape
    \/ Return
    \/ NextLayout
    \/ PromptChoice
    \/ PromptName
    \/ Save

Spec == Init /\ [][Next]_vars

\* The function runs statement after statement: between opening and the
\* first question nothing waits for anyone.
FairSpec ==
    Spec /\ WF_vars(NextMaster \/ ScanShapes \/ RemoveShape \/ Return \/ NextLayout)

\* ------------------------------------------------------------------ the pass: what it guarantees

Count(x, seq) == Cardinality({k \in DOMAIN seq : seq[k] = x})

Scanned == pc \in {"remove", "return"}
PassDone == pc = "return"

Succeeded(id) == \E k \in DOMAIN tries : tries[k].id = id /\ tries[k].ok
TriesOf(id) == Cardinality({k \in DOMAIN tries : tries[k].id = id})

NumRemoved == Cardinality({k \in DOMAIN tries : tries[k].ok})
NumFailed == Cardinality({k \in DOMAIN tries : ~tries[k].ok})
NumLines(msg) == Cardinality({k \in DOMAIN out : out[k].msg = msg})

IsLinkedPicture(shape) ==
    shape.shape_type = "PICTURE" /\ shape.address \notin {NoneAddress, ""}

HasLinkedChild(shape) ==
    \E c \in DOMAIN shape.shapes : IsLinkedPicture(shape.shapes[c])

\* C1: every top-level Picture with a non-empty hyperlink address is on the
\* worklist exactly once and, once its detachment has succeeded and the pass
\* is over, is no longer in the collection.
C1_LinkedPictureListedOnceAndRemoved ==
    Scanned =>
        \A k \in DOMAIN before :
            IsLinkedPicture(before[k]) =>
                /\ Count(before[k].id, shapes_to_remove) = 1
                /\ (PassDone /\ Succeeded(before[k].id)) => ~Attached(Cur, before[k].id)

C1_Witness ==
    /\ PassDone
    /\ Len(before) = 2
    /\ \A k \in DOMAIN before : IsLinkedPicture(before[k])
    /\ Succeeded(before[1].id)
    /\ Succeeded(before[2].id)
    /\ Cur = <<>>

\* The pictures without a hyperlink address anywhere in a collection, each
\* named by the identities on the way down to it.
IsUnlinkedPicture(shape) == shape.shape_type = "PICTURE" /\ ~IsLinkedPicture(shape)

UnlinkedPictures(coll) ==
    {<<coll[k].id>> : k \in {k \in DOMAIN coll : IsUnlinkedPicture(coll[k])}}
    \cup UNION {
        {<<coll[k].id, coll[k].shapes[c].id>> :
            c \in {c \in DOMAIN coll[k].shapes : IsUnlinkedPicture(coll[k].shapes[c])}} :
        k \in DOMAIN coll}
    \cup UNION { UNION {
        {<<coll[k].id, coll[k].shapes[c].id, coll[k].shapes[c].shapes[g].id>> :
            g \in {g \in DOMAIN coll[k].shapes[c].shapes :
                    IsUnlinkedPicture(coll[k].shapes[c].shapes[g])}} :
        c \in DOMAIN coll[k].shapes} : k \in DOMAIN coll}

\* C2 as stated: a Picture with an absent or empty hyperlink address is never
\* removed by the pass, wherever it sits in the shape tree.
C2_UnlinkedPictureNeverRemoved ==
    UnlinkedPictures(before) \subseteq UnlinkedPictures(Cur)

\* C2 amended: a Picture with an absent or empty hyperlink address is never
\* put on the worklist; at the top level it is never removed, and inside a
\* Group it goes only together with the top-level Group that holds it,
\* detached because an immediate-child Picture of that Group has a non-empty
\* hyperlink address.
C2_UnlinkedPictureNotTargeted ==
    \A path \in UnlinkedPictures(before) :
        IF Len(path) = 1
        THEN /\ ~InSeq(path[1], shapes_to_remove)
             /\ path \in UnlinkedPictures(Cur)
        ELSE path \notin UnlinkedPictures(Cur) =>
                /\ Succeeded(path[1])
                /\ \E k \in DOMAIN before :
                    /\ before[k].id = path[1]
                    /\ before[k].shape_type = "GROUP"
                    /\ HasLinkedChild(before[k])

C2_Witness ==
    /\ PassDone
    /\ <<1>> \in UnlinkedPictures(before)
    /\ <<1>> \in UnlinkedPictures(Cur)
    /\ before[1].click_action /\ before[1].hyperlink /\ before[1].address = ""
    /\ <<2, 2>> \in UnlinkedPictures(before)
    /\ <<2, 2>> \notin UnlinkedPictures(Cur)

\* C3: a top-level Group with at least one immediate-child Picture that has a
\* non-empty hyperlink address is put on the worklist exactly once, whole, and
\* its detachment is made exactly once, however many children qualify; the
\* scan of its children stops at the first match.
C3_GroupListedOnceDetachedOnce ==
    Scanned =>
        \A k \in DOMAIN before :
            (before[k].shape_type = "GROUP" /\ HasLinkedChild(before[k])) =>
                /\ Count(before[k].id, shapes_to_remove) = 1
                /\ TriesOf(before[k].id) <= 1
                /\ PassDone => TriesOf(before[k].id) = 1
                /\ (PassDone /\ Succeeded(before[k].id)) => ~Attached(Cur, before[k].id)
                /\ IsLinkedPicture(before[k].shapes[inspected[k]])
                /\ \A c \in 1..(inspected[k] - 1) : ~IsLinkedPicture(before[k].shapes[c])

C3_Witness ==
    /\ PassDone
    /\ Len(before) = 1
    /\ before[1].shape_type = "GROUP"
    /\ Len(before[1].shapes) = 2
    /\ \A c \in DOMAIN before[1].shapes : IsLinkedPicture(before[1].shapes[c])
    /\ inspected[1] = 1
    /\ Succeeded(1)
    /\ Cur = <<>>

\* C4: a top-level Group none of whose immediate children is a Picture with a
\* non-empty hyperlink address stays where it is with all its descendants,
\* also when such a Picture sits further down inside it.
C4_GroupWithoutLinkedChildUntouched ==
    \A k \in DOMAIN before :
        (before[k].shape_type = "GROUP" /\ ~HasLinkedChild(before[k])) =>
            /\ ~InSeq(before[k].id, shapes_to_remove)
            /\ \E n \in DOMAIN Cur : Cur[n] = before[k]

C4_Witness ==
    /\ PassDone
    /\ Len(before) = 2
    /\ before[2].shape_type = "GROUP"
    /\ \E c \in DOMAIN before[2].shapes :
        /\ before[2].shapes[c].shape_type = "GROUP"
        /\ HasLinkedChild(before[2].shapes[c])
    /\ ~HasLinkedChild(before[2])
    /\ Succeeded(1)
    /\ Cur = <<before[2]>>

SecondCallDone == PassDone /\ Len(calls) = 2

\* C5: the pass run a second time on the collection the first run has cleaned
\* (every detachment of the first run succeeded) builds an empty worklist,
\* removes nothing and leaves the collection as the first run left it.
C5_SecondRunRemovesNothing ==
    (SecondCallDone /\ \A k \in DOMAIN prev_tries : prev_tries[k].ok) =>
        /\ shapes_to_remove = <<>>
        /\ tries = <<>>
        /\ Cur = before
        /\ out = <<Line("none_found", 0)>>

C5_Witness ==
    /\ SecondCallDone
    /\ Len(prev_tries) = 2
    /\ \A k \in DOMAIN prev_tries : prev_tries[k].ok
    /\ shapes_to_remove = <<>>

\* C6: a failed detachment does not end the removal loop: the loop goes on
\* through the worklist in order, so that at the end every worklist shape has
\* had its attempt, in worklist order, and every shape whose attempt did not
\* fail is out of the collection.
C6_FailureDoesNotAbortBatch ==
    /\ pc = "remove" =>
        /\ r <= Len(shapes_to_remove)
        /\ Len(tries) = r - 1
    /\ Scanned =>
        /\ Len(tries) <= Len(shapes_to_remove)
        /\ \A k \in DOMAIN tries : tries[k].id = shapes_to_remove[k]
    /\ PassDone =>
        /\ Len(tries) = Len(shapes_to_remove)
        /\ \A k \in DOMAIN tries : tries[k].ok => ~Attached(Cur, tries[k].id)

C6_Witness ==
    /\ PassDone
    /\ Len(shapes_to_remove) = 2
    /\ Len(tries) = 2
    /\ ~tries[1].ok
    /\ tries[2].ok
    /\ Attached(Cur, tries[1].id)
    /\ ~Attached(Cur, tries[2].id)

C8_SaveAsNewNeverOverwrites ==
    /\ [][(pc = "name" /\ Abspath(output_path') = Abspath(input_path))
            => (pc' = "prompt" /\ save_calls' = save_calls)]_vars
    /\ [](pc = "save" /\ Abspath(output_path) = Abspath(input_path) => choice = <<"O">>)
    /\ [](\A k \in DOMAIN save_calls :
            Abspath(save_calls[k]) = Abspath(input_path) => choice = <<"O">>)

C8_Witness ==
    /\ pc = "prompt"
    /\ choice = <<"S">>
    /\ output_path # input_path
    /\ Abspath(output_path) = Abspath(input_path)
    /\ save_calls = <<>>

\* C9: when opening the presentation fails, the failure is printed and the
\* function returns: the pass is never called, no shape is detached, no
\* question is asked and save() is never called.
C9_LoadErrorEndsRun ==
    /\ [](opened = "error" =>
            /\ pc = "returned"
            /\ out = <<Line("error_opening", 0)>>
            /\ calls = <<>>
            /\ tries = <<>>
            /\ choice = <<>>
            /\ output_path = NoPath
            /\ save_calls = <<>>)
    /\ [][opened' = "error" => prs' = prs]_vars
    /\ [][opened = "error" => UNCHANGED vars]_vars

C9_Witness ==
    /\ opened = "error"
    /\ pc = "returned"
    /\ Len(prs) = 2
    /\ prs[1].shapes # <<>>
    /\ prs[1].slide_layouts # <<>>

RECURSIVE LayoutCalls(_, _)
LayoutCalls(mm, n) ==
    IF n = 0 THEN <<>> ELSE Append(LayoutCalls(mm, n - 1), <<mm, n>>)

\* The collections of a presentation: master by master, the master's own
\* shapes and then its layouts' in order.
RECURSIVE ExpectedCalls(_, _)
ExpectedCalls(doc, mm) ==
    IF mm > Len(doc) THEN <<>>
    ELSE << <<mm, 0>> >> \o LayoutCalls(mm, Len(doc[mm].slide_layouts))
         \o ExpectedCalls(doc, mm + 1)

IsPrefix(a, b) == Len(a) <= Len(b) /\ \A k \in DOMAIN a : a[k] = b[k]

Asking == pc \in {"prompt", "name", "save", "done"}

\* C10: once the presentation is open the pass is called exactly once on each
\* master's shapes and on each of its layouts' shapes, master by master, the
\* master before its layouts and the layouts in order, and all of it before
\* the first question; with no master, or no layout, there is no call for
\* them, and the run comes to the question all the same.
C10_EveryCollectionScannedOnceInOrder ==
    /\ [](IsPrefix(calls, ExpectedCalls(prs, 1)))
    /\ [](pc \in {"scan", "remove", "return"} => calls[Len(calls)] = <<m, j>>)
    /\ [](Asking => calls = ExpectedCalls(prs, 1))
    /\ [][Asking => calls' = calls /\ prs' = prs]_vars
    /\ (opened = "yes" ~> Asking)

C10_Witness ==
    /\ pc = "done"
    /\ Len(prs) = 2
    /\ Len(prs[1].slide_layouts) = 2
    /\ Len(prs[2].slide_layouts) = 0
    /\ calls = << <<1, 0>>, <<1, 1>>, <<1, 2>>, <<2, 0>> >>
    /\ Len(save_calls) = 1

====
